---- MODULE Spec2Model ----
(***************************************************************************)
(* Model of the WebSocket signaling server of src/server.js: the room      *)
(* registry `rooms`, the connection registry `peerByWs`, the per-connection *)
(* closure variables `roomId` / `userId`, and the message / close handlers. *)
(*                                                                         *)
(* One handler runs to completion per event-loop turn.  `ev` is the event   *)
(* being handled and `out` the messages handed to ws.send() while handling  *)
(* it; Return ends the turn.                                                *)
(***************************************************************************)
EXTENDS Integers, Sequences, FiniteSets, TLC

\* ------------------------------------------------------------------ bounds
NumConns == 3      \* connections the transport ever accepts, numbered in
                   \* the order of their connection events
MaxLen == 2        \* longest room-id string a client sends
MaxGen == 1        \* server-generated user ids handed out
MaxEvents == 7     \* events the server handles in one run
MaxSegs == 3       \* longest request path, in segments
MaxPairEvents == 5 \* events handled in one run of SpecRoomIds

Conns == 1..NumConns

\* ----------------------------------------------------------------- strings
\* A string is a sequence of characters; the alphabet has one whitespace
\* character and one letter in both cases.
Chars == {" ", "R", "r"}
Strings == UNION {[1..n -> Chars] : n \in 0..MaxLen}

IsSpace(ch) == ch = " "

ToLowerChar(ch) == IF ch = "R" THEN "r" ELSE ch

ToLowerCase(s) == [i \in 1..Len(s) |-> ToLowerChar(s[i])]

RECURSIVE TrimStart(_)
TrimStart(s) ==
  IF s # <<>> /\ IsSpace(Head(s)) THEN TrimStart(Tail(s)) ELSE s

RECURSIVE TrimEnd(_)
TrimEnd(s) ==
  IF s # <<>> /\ IsSpace(s[Len(s)]) THEN TrimEnd(SubSeq(s, 1, Len(s) - 1)) ELSE s

Trim(s) == TrimEnd(TrimStart(s))

\* ------------------------------------------------------------- JSON values
\* The value of msg.roomId: absent, a number (0 is falsy, 5 truthy) or a string.
JUndefined == [t |-> "undefined", n |-> 0, s |-> <<>>]
JNumber(k) == [t |-> "number", n |-> k, s |-> <<>>]
JString(str) == [t |-> "string", n |-> 0, s |-> str]

\* Room ids of the main specification: the empty string, two spellings of the
\* key "r", and the key "rr"; and every value of the other types.
RoomNames == {<<>>, <<"r">>, <<"R", " ">>, <<"r", "r">>}
RoomIdInputs == {JUndefined, JNumber(0), JNumber(5)} \cup {JString(s) : s \in RoomNames}

\* Room ids of SpecRoomIds: every string of the alphabet up to MaxLen.
AllRoomIdStrings == {JString(s) : s \in Strings}

\* JavaScript truthiness of such a value.
Truthy(v) ==
  CASE v.t = "undefined" -> FALSE
    [] v.t = "number" -> v.n # 0
    [] OTHER -> v.s # <<>>

\* User ids: supplied by the client, generated by the server, or no id at all.
Uid(src, k) == [src |-> src, n |-> k]
Undefined == Uid("undefined", 0)
Null == Uid("null", 0)
ClientUserIds == {Uid("client", 1)}
GeneratedUserIds == {Uid("generated", k) : k \in 1..MaxGen}
UserIdInputs == ClientUserIds \cup {Undefined}
ToInputs == ClientUserIds \cup GeneratedUserIds \cup {Undefined}

\* sdp / candidate payloads, opaque to the server.
NoPayload == "undefined"
RelayTypes == {"offer", "answer", "ice-candidate"}
\* An offer carries sdp d1, an answer sdp d2, an ice-candidate candidate d1.
RelayInputs ==
  {[type |-> "offer", to |-> to, sdp |-> "d1", candidate |-> NoPayload] : to \in ToInputs}
  \cup
  {[type |-> "answer", to |-> to, sdp |-> "d2", candidate |-> NoPayload] : to \in ToInputs}
  \cup
  {[type |-> "ice-candidate", to |-> to, sdp |-> NoPayload, candidate |-> "d1"] :
      to \in ToInputs}

\* Parsed JSON that is not a message object: null, or a primitive such as 5.
NonObjects == {"null", "primitive"}
UnknownTypes == {"undefined", "bogus"}

\* The closure variable roomId before any join.
NullRoom == <<"null">>

\* ws.readyState
NOTCONNECTED == 0
OPEN == 1
CLOSING == 2
CLOSED == 3

\* ------------------------------------------------------------------- state
VARIABLES
  readyState,   \* connection -> ws.readyState (0 before the connection event)
  rooms,        \* Map: room key -> members in insertion order
  peerByWs,     \* Map: connection -> [roomId, userId]
  roomId,       \* connection -> closure variable roomId
  userId,       \* connection -> closure variable userId
  nextGen,      \* generated user ids handed out so far
  crashed,      \* an exception escaped a handler
  events,       \* events handled so far
  ev,           \* the event being handled
  out,          \* messages sent while handling it: <<[to, data]>>
  http          \* the HTTP exchange: request, resolved path, response

vars == <<readyState, rooms, peerByWs, roomId, userId, nextGen, crashed, events, ev, out, http>>

\* Array.prototype.find found nothing; also the connection of no event.
NoConn == 0

Idle == [op |-> "idle", c |-> NoConn]

\* No HTTP request has come in.
NoRequest == [state |-> "none"]

\* ------------------------------------------------------------ Map and Set
Has(m, k) == k \in DOMAIN m

MapSet(m, k, v) == [x \in (DOMAIN m) \cup {k} |-> IF x = k THEN v ELSE m[x]]

MapDelete(m, k) == [x \in (DOMAIN m) \ {k} |-> m[x]]

Range(q) == {q[i] : i \in DOMAIN q}

\* Set.prototype.add / delete on an insertion-ordered Set.
SetAdd(q, w) == IF w \in Range(q) THEN q ELSE Append(q, w)

SetDelete(q, w) == SelectSeq(q, LAMBDA x : x # w)

\* ---------------------------------------------------------------- messages
Joined(r, u, peers) == [type |-> "joined", roomId |-> r, userId |-> u, peers |-> peers]

PeerJoined(r, u) == [type |-> "peer-joined", roomId |-> r, userId |-> u]

PeerLeft(u) == [type |-> "peer-left", userId |-> u]

Error(m) == [type |-> "error", message |-> m]

Relayed(ty, from, to, sdp, candidate) ==
  [type |-> ty, from |-> from, to |-> to, sdp |-> sdp, candidate |-> candidate]

\* JSON.stringify: an undefined array element is written as null (an undefined
\* property is left out, which the reader sees as undefined again).
Stringify(payload) ==
  IF "peers" \in DOMAIN payload
  THEN [payload EXCEPT !.peers =
          [i \in DOMAIN payload.peers |->
             IF payload.peers[i] = Undefined THEN Null ELSE payload.peers[i]]]
  ELSE payload

\* send(ws, payload), appended to the messages o sent so far; rs is readyState.
Send(rs, o, ws, payload) ==
  IF rs[ws] = OPEN THEN Append(o, [to |-> ws, data |-> Stringify(payload)]) ELSE o

RECURSIVE SendEach(_, _, _, _)
SendEach(rs, o, q, payload) ==
  IF q = <<>> THEN o
  ELSE SendEach(rs, Send(rs, o, Head(q), payload), Tail(q), payload)

BroadcastToRoom(rs, rms, o, rid, payload) ==
  IF ~Has(rms, rid) THEN o ELSE SendEach(rs, o, rms[rid], payload)

\* Mutant: the exclusion test is lost and the sender is notified too.
BroadcastToRoomExceptNobody(rs, rms, o, rid, excludeWs, payload) ==
  BroadcastToRoom(rs, rms, o, rid, payload)

BroadcastToRoomExcept(rs, rms, o, rid, excludeWs, payload) ==
  IF ~Has(rms, rid) THEN o
  ELSE SendEach(rs, o, SetDelete(rms[rid], excludeWs), payload)

\* peerByWs.get(w)?.userId
LookupUserId(pbw, w) == IF Has(pbw, w) THEN pbw[w].userId ELSE Undefined

\* ------------------------------------------------------------ join pieces
\* Mutant: the key is trimmed but keeps its letter case.
NormalizeKeepCase(rid) == Trim(IF Truthy(rid) THEN rid.s ELSE <<>>)

\* (msg.roomId || '').trim().toLowerCase(); the caller has excluded the values
\* on which .trim is not a function.
Normalize(rid) == ToLowerCase(Trim(IF Truthy(rid) THEN rid.s ELSE <<>>))

\* .trim() on a truthy value that is not a string throws a TypeError.
TrimThrows(rid) == Truthy(rid) /\ rid.t # "string"

\* rooms.get(requestedRoom) || new Set()
RoomOrNew(rms, key) == IF Has(rms, key) THEN rms[key] ELSE <<>>

\* Mutant: the capacity test is gone, every room takes one more member.
RoomIsFullNever(room) == FALSE

\* Mutant: the capacity test is off by one.
RoomIsFullOffByOne(room) == Len(room) > 2

RoomIsFull(room) == Len(room) >= 2

\* Array.from(room).filter((w) => w !== ws).map((w) => peerByWs.get(w)?.userId)
PeersInRoom(pbw, room, ws) ==
  LET others == SetDelete(room, ws)
  IN  [i \in 1..Len(others) |-> LookupUserId(pbw, others[i])]

\* ----------------------------------------------------------- relay pieces
\* Array.from(room).find((w) => w !== ws && peerByWs.get(w)?.userId === targetUserId)
RECURSIVE FindTarget(_, _, _, _)
FindTarget(pbw, room, ws, targetUserId) ==
  IF room = <<>> THEN NoConn
  ELSE IF Head(room) # ws /\ LookupUserId(pbw, Head(room)) = targetUserId
       THEN Head(room)
       ELSE FindTarget(pbw, Tail(room), ws, targetUserId)

\* Mutant: 'peer-left' is broadcast before the leaver is taken out of the room.
LeaveRoomNotifyFirst(rs, ws) ==
  IF ~Has(peerByWs, ws)
  THEN [peerByWs |-> peerByWs, rooms |-> rooms, out |-> <<>>]
  ELSE
    LET info == peerByWs[ws]
        pbw == MapDelete(peerByWs, ws)
    IN  IF ~Has(rooms, info.roomId)
        THEN [peerByWs |-> pbw, rooms |-> rooms, out |-> <<>>]
        ELSE
          LET room == SetDelete(rooms[info.roomId], ws)
          IN  [peerByWs |-> pbw,
               rooms |-> IF Len(room) = 0 THEN MapDelete(rooms, info.roomId)
                         ELSE MapSet(rooms, info.roomId, room),
               out |-> IF Len(room) = 0 THEN <<>>
                       ELSE BroadcastToRoom(rs, rooms, <<>>, info.roomId,
                                            PeerLeft(info.userId))]

\* ---------------------------------------------------------------- leaveRoom
\* The registries and the messages sent once leaveRoom(ws) has run.
LeaveRoom(rs, ws) ==
  IF ~Has(peerByWs, ws)
  THEN [peerByWs |-> peerByWs, rooms |-> rooms, out |-> <<>>]
  ELSE
    LET info == peerByWs[ws]
        pbw == MapDelete(peerByWs, ws)
    IN  IF ~Has(rooms, info.roomId)
        THEN [peerByWs |-> pbw, rooms |-> rooms, out |-> <<>>]
        ELSE
          LET room == SetDelete(rooms[info.roomId], ws)
              rms == MapSet(rooms, info.roomId, room)
          IN  IF Len(room) = 0
              THEN [peerByWs |-> pbw, rooms |-> MapDelete(rooms, info.roomId),
                    out |-> <<>>]
              ELSE [peerByWs |-> pbw, rooms |-> rms,
                    out |-> BroadcastToRoom(rs, rms, <<>>, info.roomId,
                                            PeerLeft(info.userId))]

\* ------------------------------------------------------------------- Init
Init ==
  /\ readyState = [c \in Conns |-> NOTCONNECTED]
  /\ rooms = <<>>
  /\ peerByWs = <<>>
  /\ roomId = [c \in Conns |-> NullRoom]
  /\ userId = [c \in Conns |-> Null]
  /\ nextGen = 0
  /\ crashed = FALSE
  /\ events = 0
  /\ ev = Idle
  /\ out = <<>>
  /\ http = NoRequest

\* The event loop is free and the server process is alive: the next event is
\* taken.
Ready ==
  /\ ~crashed
  /\ ev.op = "idle"
  /\ events < MaxEvents
  /\ events' = events + 1
  /\ UNCHANGED http

\* A message event fires on an open connection.
Receiving(c) == Ready /\ readyState[c] = OPEN

\* ----------------------------------------------------------------- actions
\* wss.on('connection'): a new connection with roomId = userId = null.
Connection(c) ==
  /\ Ready
  /\ readyState[c] = NOTCONNECTED
  /\ \A d \in Conns : d < c => readyState[d] # NOTCONNECTED
  /\ readyState' = [readyState EXCEPT ![c] = OPEN]
  /\ roomId' = [roomId EXCEPT ![c] = NullRoom]
  /\ userId' = [userId EXCEPT ![c] = Null]
  /\ ev' = [op |-> "connection", c |-> c]
  /\ out' = <<>>
  /\ UNCHANGED <<rooms, peerByWs, nextGen, crashed>>

\* Mutant: the catch block swallows the parse error and answers nothing.
InvalidJSONSilent(c) ==
  /\ Receiving(c)
  /\ ev' = [op |-> "invalid-json", c |-> c]
  /\ out' = <<>>
  /\ UNCHANGED <<readyState, rooms, peerByWs, roomId, userId, nextGen, crashed>>

\* A message that JSON.parse rejects.
InvalidJSON(c) ==
  /\ Receiving(c)
  /\ ev' = [op |-> "invalid-json", c |-> c]
  /\ out' = Send(readyState, <<>>, c, Error("Invalid JSON"))
  /\ UNCHANGED <<readyState, rooms, peerByWs, roomId, userId, nextGen, crashed>>

\* JSON that parses to something other than an object: msg.type throws on null
\* and is undefined on a primitive, which falls to the default case.
NotAnObject(c, v) ==
  /\ Receiving(c)
  /\ ev' = [op |-> "not-an-object", c |-> c, value |-> v]
  /\ IF v = "null"
     THEN /\ crashed' = TRUE
          /\ out' = <<>>
     ELSE /\ crashed' = crashed
          /\ out' = Send(readyState, <<>>, c, Error("Unknown message type"))
  /\ UNCHANGED <<readyState, rooms, peerByWs, roomId, userId, nextGen>>

\* case 'join'
Join(c, rid, uid) ==
  /\ Receiving(c)
  /\ ev' = [op |-> "join", c |-> c, roomId |-> rid, userId |-> uid]
  /\ IF TrimThrows(rid)
     THEN /\ crashed' = TRUE
          /\ out' = <<>>
          /\ UNCHANGED <<rooms, peerByWs, roomId, userId, nextGen>>
     ELSE
       LET requestedRoom == Normalize(rid)
           room == RoomOrNew(rooms, requestedRoom)
       IN  IF requestedRoom = <<>>
           THEN /\ out' = Send(readyState, <<>>, c, Error("Room ID required"))
                /\ UNCHANGED <<rooms, peerByWs, roomId, userId, nextGen, crashed>>
           ELSE IF RoomIsFull(room)
           THEN /\ out' = Send(readyState, <<>>, c,
                               Error("Room is full (max 2 participants)"))
                /\ UNCHANGED <<rooms, peerByWs, roomId, userId, nextGen, crashed>>
           ELSE
             LET generate == uid = Undefined
                 newUserId == IF generate THEN Uid("generated", nextGen + 1) ELSE uid
                 newRoom == SetAdd(room, c)
                 rms == MapSet(rooms, requestedRoom, newRoom)
                 pbw == MapSet(peerByWs, c,
                               [roomId |-> requestedRoom, userId |-> newUserId])
                 o1 == Send(readyState, <<>>, c,
                            Joined(requestedRoom, newUserId,
                                   PeersInRoom(pbw, newRoom, c)))
             IN  /\ generate => nextGen < MaxGen
                 /\ nextGen' = IF generate THEN nextGen + 1 ELSE nextGen
                 /\ userId' = [userId EXCEPT ![c] = newUserId]
                 /\ roomId' = [roomId EXCEPT ![c] = requestedRoom]
                 /\ rooms' = rms
                 /\ peerByWs' = pbw
                 /\ out' = BroadcastToRoomExcept(readyState, rms, o1, requestedRoom, c,
                                                 PeerJoined(requestedRoom, newUserId))
                 /\ crashed' = crashed
  /\ UNCHANGED readyState

\* case 'offer' / 'answer' / 'ice-candidate'
Relay(c, msg) ==
  /\ Receiving(c)
  /\ ev' = [op |-> "relay", c |-> c, msg |-> msg]
  /\ out' =
       IF roomId[c] = NullRoom
       THEN Send(readyState, <<>>, c, Error("Join a room first"))
       ELSE IF ~Has(rooms, roomId[c])
       THEN <<>>
       ELSE
         LET targetWs == FindTarget(peerByWs, rooms[roomId[c]], c, msg.to)
         IN  IF targetWs = NoConn \/ readyState[targetWs] # OPEN
             THEN Send(readyState, <<>>, c, Error("Peer not found or disconnected"))
             ELSE Send(readyState, <<>>, targetWs,
                       Relayed(msg.type, userId[c], msg.to, msg.sdp, msg.candidate))
  /\ UNCHANGED <<readyState, rooms, peerByWs, roomId, userId, nextGen, crashed>>

\* case 'leave'
Leave(c) ==
  /\ Receiving(c)
  /\ ev' = [op |-> "leave", c |-> c]
  /\ LET r == LeaveRoom(readyState, c)
     IN  /\ peerByWs' = r.peerByWs
         /\ rooms' = r.rooms
         /\ out' = r.out
  /\ UNCHANGED <<readyState, roomId, userId, nextGen, crashed>>

\* default: any other msg.type, a missing one included.
UnknownType(c, ty) ==
  /\ Receiving(c)
  /\ ev' = [op |-> "unknown", c |-> c, type |-> ty]
  /\ out' = Send(readyState, <<>>, c, Error("Unknown message type"))
  /\ UNCHANGED <<readyState, rooms, peerByWs, roomId, userId, nextGen, crashed>>

\* The transport starts closing: the connection is no longer open, its close
\* event has not fired yet.
BeginClose(c) ==
  /\ Ready
  /\ readyState[c] = OPEN
  /\ readyState' = [readyState EXCEPT ![c] = CLOSING]
  /\ ev' = [op |-> "closing", c |-> c]
  /\ out' = <<>>
  /\ UNCHANGED <<rooms, peerByWs, roomId, userId, nextGen, crashed>>

\* ws.on('close', () => leaveRoom(ws))
Close(c) ==
  /\ Ready
  /\ readyState[c] \in {OPEN, CLOSING}
  /\ readyState' = [readyState EXCEPT ![c] = CLOSED]
  /\ ev' = [op |-> "close", c |-> c]
  /\ LET r == LeaveRoom(readyState', c)
     IN  /\ peerByWs' = r.peerByWs
         /\ rooms' = r.rooms
         /\ out' = r.out
  /\ UNCHANGED <<roomId, userId, nextGen, crashed>>

\* The ws library rejects a frame of an open connection (reserved opcode,
\* unmasked frame, text that is not UTF-8): it starts closing the connection
\* and emits 'error' on it.  The connection callback registers 'message' and
\* 'close' listeners only, so the event is unhandled and ends the process
\* before any close handler runs.
SocketError(c) ==
  /\ Receiving(c)
  /\ readyState' = [readyState EXCEPT ![c] = CLOSING]
  /\ ev' = [op |-> "error", c |-> c]
  /\ out' = <<>>
  /\ crashed' = TRUE
  /\ UNCHANGED <<rooms, peerByWs, roomId, userId, nextGen>>

\* The handler returns and the event loop takes the next event.
Return ==
  /\ ~crashed
  /\ ev.op # "idle"
  /\ ev' = Idle
  /\ out' = <<>>
  /\ UNCHANGED <<readyState, rooms, peerByWs, roomId, userId, nextGen, crashed, events, http>>

Next ==
  \/ \E c \in Conns : Connection(c)
  \/ \E c \in Conns : InvalidJSON(c)
  \/ \E c \in Conns, v \in NonObjects : NotAnObject(c, v)
  \/ \E c \in Conns, rid \in RoomIdInputs, uid \in UserIdInputs : Join(c, rid, uid)
  \/ \E c \in Conns, msg \in RelayInputs : Relay(c, msg)
  \/ \E c \in Conns : Leave(c)
  \/ \E c \in Conns, ty \in UnknownTypes : UnknownType(c, ty)
  \/ \E c \in Conns : SocketError(c)
  \/ \E c \in Conns : BeginClose(c)
  \/ \E c \in Conns : Close(c)
  \/ Return

Spec == Init /\ [][Next]_vars

\* The two parties of a one-to-one call, with room ids drawn from every
\* string and from the values that are not strings, in runs of MaxPairEvents
\* events.
JoiningPair == {1, 2}

PairEvent ==
  \/ \E c \in JoiningPair : Connection(c)
  \/ \E c \in JoiningPair : InvalidJSON(c)
  \/ \E c \in JoiningPair, v \in NonObjects : NotAnObject(c, v)
  \/ \E c \in JoiningPair, rid \in RoomIdInputs \cup AllRoomIdStrings, uid \in UserIdInputs :
       Join(c, rid, uid)
  \/ \E c \in JoiningPair, msg \in RelayInputs : Relay(c, msg)
  \/ \E c \in JoiningPair : Leave(c)
  \/ \E c \in JoiningPair, ty \in UnknownTypes : UnknownType(c, ty)
  \/ \E c \in JoiningPair : SocketError(c)
  \/ \E c \in JoiningPair : BeginClose(c)
  \/ \E c \in JoiningPair : Close(c)

NextRoomIds ==
  \/ events < MaxPairEvents /\ PairEvent
  \/ Return

SpecRoomIds == Init /\ [][NextRoomIds]_vars

\* ------------------------------------------------------------ static files
\* A path is absolute or relative and has segments; ".." is the parent
\* segment.  "/" is the absolute path of no segment, "." the relative one.
ParentSeg == ".."
Path(abs, segs) == [abs |-> abs, segs |-> segs]

\* The directory of server.js, and PUBLIC = path.join(__dirname, 'public').
Dirname == Path(TRUE, <<"src">>)
PUBLIC == Path(TRUE, Dirname.segs \o <<"public">>)

\* The files on disk: the one under PUBLIC, and server.js beside PUBLIC.
Files == {Path(TRUE, PUBLIC.segs \o <<"app.js">>), Path(TRUE, Dirname.segs \o <<"server.js">>)}

\* req.url: a request target in origin form, "/" or "/a/b", or in absolute
\* form, "http://h" followed by the same; the segments are "..", the name of
\* the public directory and two file names.  "http://h" splits at "/" into
\* "http:", an empty segment and "h".
UrlSegs == {ParentSeg, "public", "app.js", "server.js"}
UrlPaths == UNION {[1..n -> UrlSegs] : n \in 0..MaxSegs}
Urls ==
  {Path(TRUE, segs) : segs \in UrlPaths}
    \cup {Path(FALSE, <<"http:", "", "h">> \o segs) : segs \in UrlPaths}

\* path.normalize on the segments: an empty segment is dropped; ".." takes
\* back the segment before it, is dropped at the root of an absolute path and
\* kept at the head of a relative one.
RECURSIVE NormalizeSegs(_, _, _)
NormalizeSegs(segs, acc, abs) ==
  IF segs = <<>> THEN acc
  ELSE IF Head(segs) = ""
  THEN NormalizeSegs(Tail(segs), acc, abs)
  ELSE IF Head(segs) # ParentSeg
  THEN NormalizeSegs(Tail(segs), Append(acc, Head(segs)), abs)
  ELSE IF acc # <<>> /\ acc[Len(acc)] # ParentSeg
  THEN NormalizeSegs(Tail(segs), SubSeq(acc, 1, Len(acc) - 1), abs)
  ELSE IF abs
  THEN NormalizeSegs(Tail(segs), acc, abs)
  ELSE NormalizeSegs(Tail(segs), Append(acc, ParentSeg), abs)

PathNormalize(p) == Path(p.abs, NormalizeSegs(p.segs, <<>>, p.abs))

\* .replace(/^(\.\.(\/|\\|$))+/, ''): the ".." segments at the start of the
\* string are cut; a string that starts with "/" has none.
RECURSIVE DropParents(_)
DropParents(segs) ==
  IF segs # <<>> /\ Head(segs) = ParentSeg THEN DropParents(Tail(segs)) ELSE segs

StripLeadingParents(p) == IF p.abs THEN p ELSE Path(FALSE, DropParents(p.segs))

\* path.join(base, p): the two joined by "/" and normalized.
PathJoin(base, p) == Path(base.abs, NormalizeSegs(base.segs \o p.segs, <<>>, base.abs))

\* String.prototype.startsWith on two absolute paths.  No segment name of the
\* model continues the name "public", so a prefix of characters is a prefix
\* of segments.
StartsWith(p, q) ==
  /\ p.abs = q.abs
  /\ Len(p.segs) >= Len(q.segs)
  /\ SubSeq(p.segs, 1, Len(q.segs)) = q.segs

\* req.url === '/' ? '/index.html' : req.url
FilePath(url) == IF url = Path(TRUE, <<>>) THEN Path(TRUE, <<"index.html">>) ELSE url

FullPath(url) == PathJoin(PUBLIC, StripLeadingParents(PathNormalize(FilePath(url))))

\* path.extname of the last segment, for the names of the model.
ExtName(p) ==
  IF p.segs = <<>> THEN ""
  ELSE CASE p.segs[Len(p.segs)] \in {"app.js", "server.js"} -> ".js"
         [] p.segs[Len(p.segs)] = "index.html" -> ".html"
         [] OTHER -> ""

\* types[ext] || 'application/octet-stream'
ContentType(ext) ==
  CASE ext = ".html" -> "text/html"
    [] ext = ".js" -> "application/javascript"
    [] ext = ".css" -> "text/css"
    [] ext = ".ico" -> "image/x-icon"
    [] OTHER -> "application/octet-stream"

\* The request handler up to fs.readFile: 403 for a path outside PUBLIC.
Request(url) ==
  /\ http = NoRequest
  /\ http' =
       LET fullPath == FullPath(url)
       IN  IF ~StartsWith(fullPath, PUBLIC)
           THEN [state |-> "ended", url |-> url, fullPath |-> fullPath,
                 status |-> "403", served |-> "nothing", contentType |-> "none"]
           ELSE [state |-> "reading", url |-> url, fullPath |-> fullPath,
                 status |-> "none", served |-> "nothing", contentType |-> "none"]
  /\ UNCHANGED <<readyState, rooms, peerByWs, roomId, userId, nextGen, crashed,
                 events, ev, out>>

\* The callback of fs.readFile: 404 on an error, the file otherwise.
ReadFileCallback ==
  /\ http.state = "reading"
  /\ http' =
       IF http.fullPath \notin Files
       THEN [http EXCEPT !.state = "ended", !.status = "404"]
       ELSE [http EXCEPT !.state = "ended", !.status = "200",
                         !.served = http.fullPath,
                         !.contentType = ContentType(ExtName(http.fullPath))]
  /\ UNCHANGED <<readyState, rooms, peerByWs, roomId, userId, nextGen, crashed,
                 events, ev, out>>

NextStatic ==
  \/ \E url \in Urls : Request(url)
  \/ ReadFileCallback

SpecStatic == Init /\ [][NextStatic]_vars

\* =================================================================== claims
\* Vocabulary of the claims.
Members(rms, k) == IF Has(rms, k) THEN Range(rms[k]) ELSE {}

MsgsTo(o, c, ty) == SelectSeq(o, LAMBDA m : m.to = c /\ m.data.type = ty)

OnlyMsg(c, payload) == <<[to |-> c, data |-> payload]>>

Teardown(e) == e.op \in {"leave", "close"}

\* The room key a join event asks for (the event must not have thrown).
KeyOf(e) == Normalize(e.roomId)

JoinEvent(e) == e.op = "join" /\ ~TrimThrows(e.roomId)

\* ------------------------------------------------------------------- C1
\* A join on a room of two is refused and changes no room.
C1_FullJoinStep ==
  (JoinEvent(ev') /\ Cardinality(Members(rooms, KeyOf(ev'))) = 2)
    => /\ out' = OnlyMsg(ev'.c, Error("Room is full (max 2 participants)"))
       /\ rooms' = rooms

\* C1: no room ever holds more than 2 member connections, and a join on a
\* room that already has 2 members sends the joiner exactly the error
\* 'Room is full (max 2 participants)' and leaves that room's members unchanged.
C1_RoomCapacity ==
  /\ [](\A k \in DOMAIN rooms : Len(rooms[k]) <= 2 /\ Cardinality(Range(rooms[k])) <= 2)
  /\ [][C1_FullJoinStep]_vars

\* A third connection has just been refused by a room of two others.
C1_Witness ==
  /\ ev.op = "join"
  /\ out = OnlyMsg(ev.c, Error("Room is full (max 2 participants)"))
  /\ Cardinality(Members(rooms, KeyOf(ev)) \ {ev.c}) = 2

\* ------------------------------------------------------------------- C2
\* C2: a relayed offer/answer/ice-candidate is delivered only to a connection
\* that the registry associates, at that moment, with the same room as the
\* sender; a sender with no room association gets nothing delivered.
C2_RelayStaysInRoom ==
  ev.op = "relay" =>
    \A i \in DOMAIN out :
      out[i].data.type \in RelayTypes =>
        /\ Has(peerByWs, ev.c)
        /\ Has(peerByWs, out[i].to)
        /\ peerByWs[ev.c].roomId = peerByWs[out[i].to].roomId

\* ------------------------------------------------------------------- C3
\* A join step into a room whose only member is a.
C3_SecondJoinStep ==
  \A a \in Conns :
    ( /\ JoinEvent(ev')
      /\ a # ev'.c
      /\ Members(rooms, KeyOf(ev')) = {a}
      /\ Has(peerByWs, a)
      /\ peerByWs[a].roomId = KeyOf(ev')
      /\ readyState[a] = OPEN )
    => LET b == ev'.c
           joined == MsgsTo(out', b, "joined")
           notified == MsgsTo(out', a, "peer-joined")
       IN  /\ Len(joined) = 1
           /\ joined[1].data.peers = <<peerByWs[a].userId>>
           /\ joined[1].data.userId = peerByWs'[b].userId
           /\ Len(notified) = 1
           /\ notified[1].data.userId = peerByWs'[b].userId
           /\ MsgsTo(out', b, "peer-joined") = <<>>
           /\ Len(out') = 2

\* C3: when B joins a room whose only member is the open, joined connection A,
\* B receives exactly one 'joined' whose peers list is exactly [A's userId], A
\* receives exactly one 'peer-joined' carrying B's userId, and B receives no
\* 'peer-joined'.
C3_SecondJoin == [][C3_SecondJoinStep]_vars

\* B has just joined A's room: one 'joined' to B, one 'peer-joined' to A.
C3_Witness ==
  /\ ev.op = "join"
  /\ Len(out) = 2
  /\ out[1].to = ev.c
  /\ out[1].data.type = "joined"
  /\ Len(out[1].data.peers) = 1
  /\ out[2].to # ev.c
  /\ out[2].data.type = "peer-joined"
  /\ out[2].data.userId = peerByWs[ev.c].userId

\* ------------------------------------------------------------------- C4
\* A teardown step of a connection that shares its room with d.
C4_DepartureStep ==
  /\ \A d \in Conns :
       ( /\ Teardown(ev')
         /\ d # ev'.c
         /\ Has(peerByWs, ev'.c)
         /\ Has(peerByWs, d)
         /\ peerByWs[d].roomId = peerByWs[ev'.c].roomId
         /\ readyState[d] = OPEN )
       => out' = OnlyMsg(d, PeerLeft(peerByWs[ev'.c].userId))
  /\ (ev'.op = "close" /\ ~Has(peerByWs, ev'.c)) => out' = <<>>

\* C4: when one of two participants joined to the same room is torn down
\* (leave message or transport close), the other, if open, receives exactly
\* one 'peer-left' carrying the departed participant's userId and the
\* departing connection receives nothing; a close that follows a leave sends
\* nothing more.
C4_PeerLeftOnce == [][C4_DepartureStep]_vars

\* A transport close has just told the remaining participant who left.
C4_Witness ==
  /\ ev.op = "close"
  /\ Len(out) = 1
  /\ out[1].data.type = "peer-left"
  /\ out[1].to # ev.c
  /\ out[1].data.userId = userId[ev.c]
  /\ Has(peerByWs, out[1].to)
  /\ peerByWs[out[1].to].roomId = roomId[ev.c]

\* ------------------------------------------------------------------- C5
\* The connection has gone from the rooms it joined: it is closed, or it has
\* no association left.
Departed(d) == readyState[d] = CLOSED \/ ~Has(peerByWs, d)

\* Teardown of the connection that is the only member of room k.
C5_LastLeaveStep ==
  \A k \in DOMAIN rooms :
    (Teardown(ev') /\ Members(rooms, k) = {ev'.c}) => ~Has(rooms', k)

\* A join on a room id that has no entry, or whose members have all departed.
C5_FreshJoinStep ==
  ( /\ JoinEvent(ev')
    /\ KeyOf(ev') # <<>>
    /\ \A d \in Members(rooms, KeyOf(ev')) \ {ev'.c} : Departed(d) )
  => /\ Has(rooms', KeyOf(ev'))
     /\ rooms'[KeyOf(ev')] = <<ev'.c>>
     /\ Len(out') = 1
     /\ out'[1].to = ev'.c
     /\ out'[1].data.type = "joined"
     /\ out'[1].data.peers = <<>>

\* C5: the registry never holds a room with zero members; when the last
\* member of a room is torn down (leave or close) the room entry is deleted,
\* and the next join with that room id creates a room whose only member is
\* the joiner, with an empty peers list.
C5_NoEmptyRoom ==
  /\ [](\A k \in DOMAIN rooms : rooms[k] # <<>>)
  /\ [][C5_LastLeaveStep /\ C5_FreshJoinStep]_vars

\* ------------------------------------------------------------------- C6
\* C6: if a joined participant relays to an id X and no other member of its
\* room is registered under userId X with an open connection, the sender gets
\* exactly the error 'Peer not found or disconnected' and nothing is delivered.
C6_UnknownTargetRejected ==
  ( /\ ev.op = "relay"
    /\ Has(peerByWs, ev.c)
    /\ ~\E w \in Members(rooms, peerByWs[ev.c].roomId) \ {ev.c} :
          /\ Has(peerByWs, w)
          /\ peerByWs[w].userId = ev.msg.to
          /\ readyState[w] = OPEN )
  => out = OnlyMsg(ev.c, Error("Peer not found or disconnected"))

\* ------------------------------------------------------------------- C7
\* The members, other than c, of the room c is associated with, that are open
\* once the teardown of c has started.
Remaining(c) ==
  {d \in Members(rooms, peerByWs[c].roomId) \ {c} : readyState'[d] = OPEN}

\* A teardown step without, and with, a registry entry.
C7_TeardownStep ==
  /\ (Teardown(ev') /\ ~Has(peerByWs, ev'.c))
       => peerByWs' = peerByWs /\ rooms' = rooms /\ out' = <<>>
  /\ (Teardown(ev') /\ Has(peerByWs, ev'.c))
       => /\ ~Has(peerByWs', ev'.c)
          /\ \A k \in DOMAIN rooms' : ev'.c \notin Members(rooms', k)
          /\ Len(out') = Cardinality(Remaining(ev'.c))
          /\ \A d \in Remaining(ev'.c) :
               MsgsTo(out', d, "peer-left") =
                 OnlyMsg(d, PeerLeft(peerByWs[ev'.c].userId))

\* C7: teardown of a connection that has no association changes neither
\* registry and sends nothing; teardown of an associated connection removes
\* its association, removes it from every room's member set and sends
\* 'peer-left' exactly once to each remaining member; so a leave followed by
\* a close does all this once in total.
C7_TeardownIdempotent == [][C7_TeardownStep]_vars

\* ------------------------------------------------------------------- C8
\* C8: a relay message from a connection with no current room association is
\* forwarded to nobody and answered with exactly the error 'Join a room first'.
C8_UnjoinedRelayRejected ==
  (ev.op = "relay" /\ ~Has(peerByWs, ev.c))
    => out = OnlyMsg(ev.c, Error("Join a room first"))

\* ------------------------------------------------------------------- C9
\* s is k padded with blanks, letters in either case.
SameLetter(x, y) == x = y \/ {x, y} = {"R", "r"}

CanonicalKey(k) ==
  /\ k # <<>>
  /\ ~IsSpace(k[1])
  /\ ~IsSpace(k[Len(k)])
  /\ \A i \in 1..Len(k) : k[i] # "R"

VariantOf(s, k) ==
  \E i \in 0..Len(s), j \in 0..Len(s) :
    /\ i + Len(k) + j = Len(s)
    /\ \A n \in 1..i : IsSpace(s[n])
    /\ \A n \in 1..j : IsSpace(s[Len(s) + 1 - n])
    /\ \A n \in 1..Len(k) : SameLetter(s[i + n], k[n])

C9_VariantJoinStep ==
  \A k \in Strings :
    ( /\ ev'.op = "join"
      /\ ev'.roomId.t = "string"
      /\ CanonicalKey(k)
      /\ VariantOf(ev'.roomId.s, k)
      /\ Cardinality(Members(rooms, k)) < 2 )
    => LET b == ev'.c
           joined == MsgsTo(out', b, "joined")
       IN  /\ Has(peerByWs', b)
           /\ peerByWs'[b].roomId = k
           /\ b \in Members(rooms', k)
           /\ Len(joined) = 1
           /\ joined[1].data.roomId = k
           /\ \A a \in Members(rooms, k) \ {b} :
                /\ a \in Members(rooms', k)
                /\ Has(peerByWs, a) => joined[1].data.peers = <<peerByWs[a].userId>>
                /\ readyState[a] = OPEN =>
                     MsgsTo(out', a, "peer-joined") = <<[to |-> a, data |-> PeerJoined(k, peerByWs'[b].userId)]>>

\* C9: a join whose room id is a variant of key k (k padded with leading or
\* trailing whitespace, letters in either case) joins room k: the joiner is
\* registered under k, is a member of rooms[k], is told roomId k, and is shown
\* the registered ids of the members already there, who are notified.
C9_RoomKeyNormalized == [][C9_VariantJoinStep]_vars

\* A join spelled with a leading blank and a capital letter has landed in the
\* room "r" beside a member who is registered there.
C9_Witness ==
  /\ ev.op = "join"
  /\ ev.roomId = JString(<<" ", "R">>)
  /\ Has(rooms, <<"r">>)
  /\ Len(rooms[<<"r">>]) = 2
  /\ rooms[<<"r">>][2] = ev.c
  /\ Has(peerByWs, rooms[<<"r">>][1])
  /\ peerByWs[rooms[<<"r">>][1]].roomId = <<"r">>
  /\ MsgsTo(out, ev.c, "joined") # <<>>
  /\ Len(MsgsTo(out, ev.c, "joined")[1].data.peers) = 1

\* ------------------------------------------------------------------ C10
\* C10: no inbound message is fatal: whatever a connection sends, no exception
\* escapes the handler, and a malformed envelope, an unknown type or a join
\* without a usable room id is answered with an 'error' to the sender.
C10_NoMessageIsFatal ==
  /\ ~crashed
  /\ ( \/ ev.op \in {"invalid-json", "not-an-object", "unknown"}
       \/ (ev.op = "join" /\ ev.roomId.t # "string") )
     => MsgsTo(out, ev.c, "error") # <<>>

\* ------------------------------------------------------------------ C11
\* C11: the two registries agree in every reachable state: a connection is in
\* the member set of room k exactly when the connection registry maps it to
\* room k, so that no connection is a member of two rooms.
C11_RegistriesConsistent ==
  /\ \A c \in Conns, k \in DOMAIN rooms :
       c \in Members(rooms, k) <=> (Has(peerByWs, c) /\ peerByWs[c].roomId = k)
  /\ \A c \in DOMAIN peerByWs : c \in Members(rooms, peerByWs[c].roomId)
  /\ \A c \in Conns : Cardinality({k \in DOMAIN rooms : c \in Members(rooms, k)}) <= 1

\* ------------------------------------------------------------------ C12
\* The connection has joined once and has been torn down since.
HasLeft(c) == roomId[c] # NullRoom /\ ~Has(peerByWs, c)

MessageOps == {"invalid-json", "not-an-object", "join", "relay", "leave", "unknown"}

\* A message from a connection that has left.
C12_AfterLeaveStep ==
  (ev'.op \in MessageOps /\ HasLeft(ev'.c))
    => /\ ~Has(peerByWs', ev'.c)
       /\ peerByWs' = peerByWs
       /\ rooms' = rooms
       /\ \A i \in DOMAIN out' : out'[i].to = ev'.c

\* C12: a connection that has left (leave message or disconnect) is terminal:
\* it never becomes joined again, and no later message from it changes a
\* registry or has a message sent to another connection.
C12_LeftIsTerminal == [][C12_AfterLeaveStep]_vars

\* ------------------------------------------------------------------ C13
\* A join from a connection that the registry already associates with a room.
C13_RejoinStep ==
  (JoinEvent(ev') /\ Has(peerByWs, ev'.c))
    => /\ peerByWs' = peerByWs
       /\ rooms' = rooms
       /\ \A i \in DOMAIN out' : out'[i].data.type \notin {"joined", "peer-joined"}

\* C13: a join by an already-joined connection takes no action: its
\* association is not overwritten, no room's member set changes, and no
\* 'joined' or 'peer-joined' is sent.
C13_RejoinTakesNoAction == [][C13_RejoinStep]_vars

\* ------------------------------------------------------------------ C14
\* C14: a relay that is accepted delivers exactly one message, to one
\* connection other than the sender whose registered userId equals the
\* message's 'to'; it has the type and the sdp / candidate of the message, and 'from' is the
\* userId the server recorded for the sender at its join.
C14_RelayDeliversOnce ==
  (ev.op = "relay" /\ \E i \in DOMAIN out : out[i].data.type \in RelayTypes)
    => /\ Len(out) = 1
       /\ out[1].to # ev.c
       /\ Has(peerByWs, out[1].to)
       /\ peerByWs[out[1].to].userId = ev.msg.to
       /\ out[1].data.type = ev.msg.type
       /\ out[1].data.sdp = ev.msg.sdp
       /\ out[1].data.candidate = ev.msg.candidate
       /\ out[1].data.to = ev.msg.to
       /\ out[1].data.from = userId[ev.c]

\* ------------------------------------------------------------------ C15
\* A join that asks for the empty key or for a room of two.
RejectedJoin(e, rms) ==
  /\ JoinEvent(e)
  /\ \/ KeyOf(e) = <<>>
     \/ Cardinality(Members(rms, KeyOf(e))) = 2

C15_RejectedJoinStep ==
  RejectedJoin(ev', rooms)
    => /\ rooms' = rooms
       /\ peerByWs' = peerByWs
       /\ roomId' = roomId
       /\ userId' = userId
       /\ Len(out') = 1
       /\ out'[1].to = ev'.c
       /\ out'[1].data =
            IF KeyOf(ev') = <<>> THEN Error("Room ID required")
            ELSE Error("Room is full (max 2 participants)")

\* C15: a rejected join (room id empty after normalization, or room full)
\* changes neither registry, leaves the joiner as it was (unjoined stays
\* unjoined), and sends one 'error' to the joiner and nothing else: no
\* 'joined', no 'peer-joined'.
C15_RejectedJoinChangesNothing == [][C15_RejectedJoinStep]_vars

\* An unjoined connection has just been refused the empty room id while
\* another connection holds a room.
C15_Witness ==
  /\ ev.op = "join"
  /\ KeyOf(ev) = <<>>
  /\ out = OnlyMsg(ev.c, Error("Room ID required"))
  /\ ~Has(peerByWs, ev.c)
  /\ roomId[ev.c] = NullRoom
  /\ rooms # <<>>

\* ------------------------------------------------------------------ C16
\* A message that fails to parse, or one whose type no case matches.
Undispatchable(e) ==
  \/ e.op \in {"invalid-json", "unknown"}
  \/ (e.op = "not-an-object" /\ e.value = "primitive")

C16_UndispatchableStep ==
  Undispatchable(ev')
    => /\ Len(out') = 1
       /\ out'[1].to = ev'.c
       /\ out'[1].data.type = "error"
       /\ rooms' = rooms
       /\ peerByWs' = peerByWs
       /\ roomId' = roomId
       /\ userId' = userId
       /\ readyState' = readyState

\* C16: a message of unknown type, or one that does not parse, is answered
\* with exactly one 'error' to its sender, nothing to any other connection,
\* and changes neither the registries nor the sender's joined state.
C16_UndispatchableAnswered == [][C16_UndispatchableStep]_vars

\* A joined connection sharing its room with an open peer has just sent
\* unparseable text, and got the only message sent.
C16_Witness ==
  /\ ev.op = "invalid-json"
  /\ out = OnlyMsg(ev.c, Error("Invalid JSON"))
  /\ Has(peerByWs, ev.c)
  /\ \E d \in Conns \ {ev.c} :
       /\ readyState[d] = OPEN
       /\ Has(peerByWs, d)
       /\ peerByWs[d].roomId = peerByWs[ev.c].roomId

\* ------------------------------------------------------------------ C17
\* The path a request target names under the public root, ".." followed.
Resolved(url) == PathJoin(PUBLIC, FilePath(url))

Escapes(url) == ~StartsWith(Resolved(url), PUBLIC)

\* C17: the static-file handler never serves a file from outside the public
\* root: a request whose resolved path escapes the root is answered 403 (not
\* 404, not a file), and one for a path under the root with no file is
\* answered 404.
C17_StaticRootGuard ==
  http.state = "ended" =>
    /\ http.status = "200" => StartsWith(http.served, PUBLIC)
    /\ Escapes(http.url) => http.status = "403"
    /\ (~Escapes(http.url) /\ Resolved(http.url) \notin Files) => http.status = "404"

\* ------------------------------------------------------------------ C18
\* C18: on every open connection the handler's local (roomId, userId) agrees
\* with the connection registry: the local roomId is set exactly when the
\* registry has an entry, and then both pairs are equal; a leave resets the
\* locals.
C18_LocalsAgreeWithRegistry ==
  \A c \in Conns :
    readyState[c] = OPEN =>
      /\ roomId[c] # NullRoom <=> Has(peerByWs, c)
      /\ Has(peerByWs, c) =>
           /\ peerByWs[c].roomId = roomId[c]
           /\ peerByWs[c].userId = userId[c]

\* ------------------------------------------------------------------ C19
\* C19: once every connection that was ever accepted has closed, both
\* registries are empty; and no room ever keeps a member that is closed.
C19_AllClosedAllGone ==
  /\ (\A c \in Conns : readyState[c] \in {NOTCONNECTED, CLOSED})
       => rooms = <<>> /\ peerByWs = <<>>
  /\ \A k \in DOMAIN rooms : \A c \in Members(rooms, k) : readyState[c] # CLOSED

\* ------------------------------------------------------------------ C20
\* C20: the peers list of a 'joined' response holds exactly the registered
\* userIds of the other members of the room at that moment: every other
\* member has a registry entry, the joiner's own id is not listed, and no
\* element is null or undefined.
C20_PeersAreRegistered ==
  (ev.op = "join" /\ MsgsTo(out, ev.c, "joined") # <<>>)
    => LET joined == MsgsTo(out, ev.c, "joined")[1].data
           others == Members(rooms, joined.roomId) \ {ev.c}
       IN  /\ \A w \in others : Has(peerByWs, w)
           /\ Len(joined.peers) = Cardinality(others)
           /\ \A i \in DOMAIN joined.peers : joined.peers[i] \notin {Null, Undefined}
           /\ \A w \in others :
                Has(peerByWs, w) =>
                  \E i \in DOMAIN joined.peers : joined.peers[i] = peerByWs[w].userId

====
